---- MODULE Spec2Model ----
(***************************************************************************)
(* Model of the Salling food-waste ingestion pipeline                      *)
(* (src/salling_food_waste_pipeline.py): the retrying fetch                *)
(* (fetch_with_retry) and the clearance harvester                          *)
(* (food_waste_stores_resource).                                           *)
(***************************************************************************)
EXTENDS Integers, Sequences, FiniteSets, TLC

\* ------------------------------------------------------------------------
\* Program constants
\* ------------------------------------------------------------------------

\* fetch_with_retry(..., max_retries: int = 5); both callers use the default.
max_retries == 5

\* zip_codes_per_batch = 20
zip_codes_per_batch == 20

\* time.sleep(2) between two zip codes
InterRequestDelay == 2

\* ------------------------------------------------------------------------
\* Bounds of the model
\* ------------------------------------------------------------------------

\* longest zip-code list of the harvester specification
MaxZips == 3

\* number of distinct store ids the upstream can return
NumStores == 2

\* longest zip-code list of the batching specification
MaxBatchZips == 45

\* ------------------------------------------------------------------------
\* Text of an exception: a sequence of characters, a digit as itself and
\* every other character as NonDigit.
\* ------------------------------------------------------------------------

NonDigit == -1

\* the zip codes the store table can hold, ascending (ORDER BY address__zip)
ZipTable == <<500, 1000, 4290, 8000, 8200>>

\* address__zip values that are no four-digit code: the empty string, which
\* sorts before every code, and SQL NULL
EmptyZip == -1
NullZip == -2

\* a zip code as the four characters of the request URL (?zip=0500); the
\* empty string has none
ZipText(z) ==
    IF z < 0 THEN <<>>
    ELSE <<z \div 1000, (z \div 100) % 10, (z \div 10) % 10, z % 10>>

\* an HTTP status as three characters
StatusText(s) == <<s \div 100, (s \div 10) % 10, s % 10>>

\* "429" in error_msg
Has429(msg) ==
    \E k \in 1..(Len(msg) - 2) :
        msg[k] = 4 /\ msg[k + 1] = 2 /\ msg[k + 2] = 9

\* any(f"{code}" in error_msg for code in range(500, 600))
Has5xx(msg) ==
    \E k \in 1..(Len(msg) - 2) :
        msg[k] = 5 /\ msg[k + 1] \in 0..9 /\ msg[k + 2] \in 0..9

\* ------------------------------------------------------------------------
\* What one client.get(...) can bring: a response with a JSON payload, or an
\* exception.  An HTTP error carries its status and, for a 429, an optional
\* Retry-After hint (NoHint when absent); its text is the one of
\* raise_for_status, "<status> ... for url: ...?zip=<zip>".  A network error
\* names the port and, unless it is a read timeout, the URL.
\* ------------------------------------------------------------------------

NoHint == 0

OkResp(payload) ==
    [kind |-> "ok", status |-> 200, hint |-> NoHint, withUrl |-> FALSE,
     payload |-> payload]

HttpErr(status, hint) ==
    [kind |-> "http", status |-> status, hint |-> hint, withUrl |-> TRUE,
     payload |-> <<>>]

NetErr(withUrl) ==
    [kind |-> "network", status |-> 0, hint |-> NoHint, withUrl |-> withUrl,
     payload |-> <<>>]

\* the Retry-After values a 429 can carry (seconds)
Hints == {NoHint, 7}

ErrResponses ==
    {HttpErr(429, h) : h \in Hints}
        \cup {HttpErr(s, NoHint) : s \in {404, 500, 503}}
        \cup {NetErr(u) : u \in BOOLEAN}

\* error_msg = str(e)
ErrorMsg(resp, zip) ==
    IF resp.kind = "http"
    THEN StatusText(resp.status) \o <<NonDigit>> \o ZipText(zip)
    ELSE <<NonDigit, 4, 4, 3, NonDigit>>
             \o (IF resp.withUrl THEN ZipText(zip) ELSE <<>>)

RECURSIVE Pow2(_)
Pow2(n) == IF n = 0 THEN 1 ELSE 2 * Pow2(n - 1)

\* ------------------------------------------------------------------------
\* fetch_with_retry
\* ------------------------------------------------------------------------

\* the state of one call: attempt is the loop variable, requests counts the
\* client.get calls, waits lists the time.sleep arguments, outcome is
\* "running", "returned" or "raised", value is the returned list (<<>> when
\* nothing is returned), isNone tells a returned None from a returned [],
\* completed tells that a request got a successful response.
NewFetch ==
    [attempt |-> 0, requests |-> 0, waits |-> <<>>, outcome |-> "running",
     value |-> <<>>, isNone |-> FALSE, completed |-> FALSE]

\* Continue with one iteration too many
Continue_OffByOne(f, wait) ==
    [f EXCEPT !.attempt = f.attempt + 1,
              !.requests = f.requests + 1,
              !.waits = Append(f.waits, wait),
              !.outcome = IF f.attempt + 1 <= max_retries
                          THEN "running" ELSE "returned",
              !.isNone = ~(f.attempt + 1 <= max_retries)]

\* "continue": the next iteration, or the end of the for loop, after which
\* the function ends without a return statement (None)
Continue(f, wait) ==
    [f EXCEPT !.attempt = f.attempt + 1,
              !.requests = f.requests + 1,
              !.waits = Append(f.waits, wait),
              !.outcome = IF f.attempt + 1 < max_retries
                          THEN "running" ELSE "returned",
              !.isNone = ~(f.attempt + 1 < max_retries)]

\* RateLimitWait with the backoff of the other branches
RateLimitWait_NoDouble(attempt, hint) == Pow2(attempt)

\* the wait of the 429 branch: wait_time = (2**attempt) * 2
RateLimitWait(attempt, hint) == Pow2(attempt) * 2

\* the wait of the 5xx branch and of the branch of the other errors
BackoffWait(attempt) == Pow2(attempt)

\* OnError with a 4xx other than 429 raised at once
OnError_ClientFailFast(f, resp, zip) ==
    LET msg == ErrorMsg(resp, zip) IN
    IF resp.kind = "http" /\ resp.status \in 400..499 /\ resp.status # 429
    THEN [f EXCEPT !.requests = f.requests + 1, !.outcome = "raised"]
    ELSE IF Has429(msg)
    THEN Continue(f, RateLimitWait(f.attempt, resp.hint))
    ELSE IF Has5xx(msg)
    THEN IF f.attempt < max_retries - 1
         THEN Continue(f, BackoffWait(f.attempt))
         ELSE [f EXCEPT !.requests = f.requests + 1,
                        !.outcome = "returned", !.value = <<>>]
    ELSE IF f.attempt < max_retries - 1
         THEN Continue(f, BackoffWait(f.attempt))
         ELSE [f EXCEPT !.requests = f.requests + 1, !.outcome = "raised"]

\* the except block of one iteration
OnError(f, resp, zip) ==
    LET msg == ErrorMsg(resp, zip) IN
    IF Has429(msg)
    THEN Continue(f, RateLimitWait(f.attempt, resp.hint))
    ELSE IF Has5xx(msg)
    THEN IF f.attempt < max_retries - 1
         THEN Continue(f, BackoffWait(f.attempt))
         ELSE [f EXCEPT !.requests = f.requests + 1,
                        !.outcome = "returned", !.value = <<>>]
    ELSE IF f.attempt < max_retries - 1
         THEN Continue(f, BackoffWait(f.attempt))
         ELSE [f EXCEPT !.requests = f.requests + 1, !.outcome = "raised"]

\* return response.json()
OnSuccess(f, resp) ==
    [f EXCEPT !.requests = f.requests + 1,
              !.outcome = "returned",
              !.value = resp.payload,
              !.completed = TRUE]

\* one iteration of "for attempt in range(max_retries)"
FetchStep(f, resp, zip) ==
    IF resp.kind = "ok" THEN OnSuccess(f, resp) ELSE OnError(f, resp, zip)

\* the whole call, against the responses resps[1], resps[2], ... of the
\* successive requests
RECURSIVE FetchFrom(_, _, _)
FetchFrom(f, resps, zip) ==
    IF f.outcome # "running" \/ resps = <<>>
    THEN f
    ELSE FetchFrom(FetchStep(f, Head(resps), zip), Tail(resps), zip)

fetch_with_retry(resps, zip) == FetchFrom(NewFetch, resps, zip)

\* ------------------------------------------------------------------------
\* State
\* ------------------------------------------------------------------------

VARIABLES
    f,               \* fetch_with_retry: the state of the call under way
    fzip,            \* fetch_with_retry: the zip parameter of that call
    fresps,          \* history: the responses the call has got so far
    zip_codes,       \* the harvester's zip-code list
    i,               \* the loop index of the harvester (0 before the loop)
    seen_store_ids,  \* the harvester's set of store ids
    current_batch,   \* the harvester's accumulator
    batches,         \* the batches yielded so far, in order
    hpc,             \* "loop", "done" (generator exhausted) or "raised"
    log_failed,      \* zips logged "Failed to fetch data for zip code"
    log_nodata,      \* zips logged "No stores found for zip code"
    delays,          \* history: the delay taken before each zip's request
    fetched,         \* history: what the upstream did for each zip
    mpc,             \* __main__: "step1", "step2", "step3", "completed",
                     \* "failed" (a pipeline.run raised) or "aborted"
    store_table,     \* the stored all_stores rows
    clearance_table, \* the stored food_waste_stores rows
    store_batches,   \* history: the batches all_stores_resource yielded
    dir_fetch,       \* history: the fetch of the store directory
    old_stores,      \* history: the store rows stored before the run
    old_clearances,  \* history: the clearance rows stored before the run
    upstream,        \* the responses the upstream gives to each zip request
    prev_output,     \* history: the records yielded by the harvester runs
                     \* that are over, run by run
    db,              \* the duckdb file as the reader processes see it
    cache,           \* the lru_cache entries of the reader process
    response,        \* what the last call of the reader process gave, if
                     \* one returned since the file last changed
    image_tasks,     \* download_product_images: the tasks of the run
    task_pc,         \* where each task is: "queued", "downloading",
                     \* "cached", "success" or "failed"
    files,           \* the files of static/product-images
    written          \* history: the tasks that wrote their output file

vars ==
    <<f, fzip, fresps, zip_codes, i, seen_store_ids, current_batch, batches,
      hpc, log_failed, log_nodata, delays, fetched, mpc, store_table,
      clearance_table, store_batches, dir_fetch, old_stores, old_clearances,
      upstream, prev_output, db, cache, response, image_tasks, task_pc,
      files, written>>

fetchVars == <<f, fzip, fresps>>

harvestVars ==
    <<zip_codes, i, seen_store_ids, current_batch, batches, hpc, log_failed,
      log_nodata, delays, fetched>>

\* the state of what runs beside or after the one pipeline run
readerVars == <<db, cache, response>>

imageVars == <<image_tasks, task_pc, files, written>>

auxVars == <<upstream, prev_output, readerVars, imageVars>>

runVars ==
    <<mpc, store_table, clearance_table, store_batches, dir_fetch,
      old_stores, old_clearances, auxVars>>

\* ------------------------------------------------------------------------
\* Upstream payloads of the food-waste endpoint
\* ------------------------------------------------------------------------

StoreIds == 1..NumStores

\* the store object of a group; stores with an odd id come with coordinates
UpstreamStore(s) ==
    IF s % 2 = 1
    THEN ("id" :> s @@ "coordinates" :> <<12, 55>>)
    ELSE ("id" :> s)

\* the k-th group of the response for zip z: a store and its clearances
\* (here the mark <<z, k>> of where the group came from)
Group(s, z, k) == ("store" :> UpstreamStore(s) @@ "clearances" :> <<z, k>>)

\* a group without a store object
MalformedGroup(z, k) == ("clearances" :> <<z, k>>)

\* the payloads of one or two groups of known stores, and those with a
\* malformed group
Payloads(z) ==
    {<<>>}
        \cup {<<Group(a, z, 1)>> : a \in StoreIds}
        \cup {<<Group(a, z, 1), Group(b, z, 2)>> : a \in StoreIds, b \in StoreIds}
        \cup {<<MalformedGroup(z, 1)>>}
        \cup {<<Group(a, z, 1), MalformedGroup(z, 2)>> : a \in StoreIds}

Repeat(e, n) == [k \in 1..n |-> e]

\* the responses one zip's request can meet: success at once, success after
\* one error, or the same error at every attempt
Scenarios(z) ==
    {<<OkResp(p)>> : p \in Payloads(z)}
        \cup {<<e, OkResp(p)>> :
                 e \in {HttpErr(429, NoHint), NetErr(TRUE)}, p \in Payloads(z)}
        \cup {Repeat(e, max_retries) : e \in ErrResponses}

\* ------------------------------------------------------------------------
\* food_waste_stores_resource
\* ------------------------------------------------------------------------

\* the transform with the test len(coords) == 2 in place of >= 2
NormalizeCoordinates_ExactlyTwo(store) ==
    LET coords == IF "coordinates" \in DOMAIN store
                  THEN store["coordinates"] ELSE <<>>
        keys == IF Len(coords) = 2
                THEN (DOMAIN store \cup {"longitude", "latitude"})
                ELSE DOMAIN store
    IN  [k \in keys \ {"coordinates"} |->
            IF Len(coords) = 2 /\ k = "longitude" THEN coords[1]
            ELSE IF Len(coords) = 2 /\ k = "latitude" THEN coords[2]
            ELSE store[k]]

\* coords = store.get("coordinates", []); longitude/latitude; pop
NormalizeCoordinates(store) ==
    LET coords == IF "coordinates" \in DOMAIN store
                  THEN store["coordinates"] ELSE <<>>
        keys == IF Len(coords) >= 2
                THEN (DOMAIN store \cup {"longitude", "latitude"})
                ELSE DOMAIN store
    IN  [k \in keys \ {"coordinates"} |->
            IF Len(coords) >= 2 /\ k = "longitude" THEN coords[1]
            ELSE IF Len(coords) >= 2 /\ k = "latitude" THEN coords[2]
            ELSE store[k]]

\* the group as appended to the batch
Annotate(g, zip) ==
    [k \in DOMAIN g \cup {"queried_zip_code"} |->
        IF k = "queried_zip_code" THEN zip
        ELSE IF k = "store" THEN NormalizeCoordinates(g["store"])
        ELSE g[k]]

\* store_id = store_data["store"]["id"] raises KeyError
HasStoreId(g) == "store" \in DOMAIN g /\ "id" \in DOMAIN g["store"]

\* AddGroup with the record of a store already seen overwritten by the
\* later group
AddGroup_LastWins(acc, g, zip) ==
    IF acc.raised THEN acc
    ELSE IF ~HasStoreId(g) THEN [acc EXCEPT !.raised = TRUE]
    ELSE IF g["store"]["id"] \in acc.seen
    THEN [acc EXCEPT !.batch =
             [k \in 1..Len(acc.batch) |->
                 IF acc.batch[k]["store"]["id"] = g["store"]["id"]
                 THEN Annotate(g, zip) ELSE acc.batch[k]]]
    ELSE [acc EXCEPT !.seen = acc.seen \cup {g["store"]["id"]},
                     !.batch = Append(acc.batch, Annotate(g, zip))]

\* AddGroup without the test of seen_store_ids
AddGroup_NoDedup(acc, g, zip) ==
    IF acc.raised THEN acc
    ELSE IF ~HasStoreId(g) THEN [acc EXCEPT !.raised = TRUE]
    ELSE [acc EXCEPT !.seen = acc.seen \cup {g["store"]["id"]},
                     !.batch = Append(acc.batch, Annotate(g, zip))]

\* the body of "for store_data in stores", on the accumulated
\* acc = [seen, batch, raised]
AddGroup(acc, g, zip) ==
    IF acc.raised THEN acc
    ELSE IF ~HasStoreId(g) THEN [acc EXCEPT !.raised = TRUE]
    ELSE IF g["store"]["id"] \in acc.seen THEN acc
    ELSE [acc EXCEPT !.seen = acc.seen \cup {g["store"]["id"]},
                     !.batch = Append(acc.batch, Annotate(g, zip))]

RECURSIVE ProcessStores(_, _, _)
ProcessStores(acc, stores, zip) ==
    IF stores = <<>> THEN acc
    ELSE ProcessStores(AddGroup(acc, Head(stores), zip), Tail(stores), zip)

\* FlushDue without the test of the last zip code
FlushDue_NoFinal(n, len) == n % zip_codes_per_batch = 0

\* if i % zip_codes_per_batch == 0 or i == len(zip_codes)
FlushDue(n, len) == n % zip_codes_per_batch = 0 \/ n = len

\* what the history keeps of one zip's request
FetchRecord(zip, r) ==
    [zip |-> zip, outcome |-> r.outcome, completed |-> r.completed,
     isNone |-> r.isNone, payload |-> r.value]

\* ZipBranch without the try/except around the fetch
ZipBranch_NoTry(r, acc) ==
    IF r.outcome = "raised" THEN "raise"
    ELSE IF r.value = <<>> THEN "nodata"
    ELSE IF acc.raised THEN "raise"
    ELSE "processed"

\* how one iteration ends: "failed" (except Exception: log, continue),
\* "nodata" (if not stores: log, continue), "raise" (an exception leaves the
\* generator) or "processed" (the iteration reaches the flush test)
ZipBranch(r, acc) ==
    IF r.outcome = "raised" THEN "failed"
    ELSE IF r.value = <<>> THEN "nodata"
    ELSE IF acc.raised THEN "raise"
    ELSE "processed"

\* the sleep taken before every request, the first one included
InterRequestSleep_AlsoFirst(n) == InterRequestDelay

\* if i > 1: time.sleep(2)
InterRequestSleep(n) == IF n > 1 THEN InterRequestDelay ELSE 0

\* one iteration of "for i, zip_code in enumerate(zip_codes, start=1)",
\* from the point where the request of the zip has ended as r
EndIteration(r) ==
    LET n == i + 1
        zip == zip_codes[n]
        acc == ProcessStores(
                   [seen |-> seen_store_ids, batch |-> current_batch,
                    raised |-> FALSE], r.value, zip)
        branch == ZipBranch(r, acc)
    IN  /\ r.outcome # "running"
        /\ i' = n
        /\ delays' = Append(delays, InterRequestSleep(n))
        /\ fetched' = Append(fetched, FetchRecord(zip, r))
        /\ log_failed' = IF branch = "failed"
                         THEN Append(log_failed, zip) ELSE log_failed
        /\ log_nodata' = IF branch = "nodata"
                         THEN Append(log_nodata, zip) ELSE log_nodata
        /\ hpc' = IF branch = "raise" THEN "raised" ELSE "loop"
        /\ seen_store_ids' = IF branch \in {"raise", "processed"}
                             THEN acc.seen ELSE seen_store_ids
        /\ IF branch = "processed" /\ FlushDue(n, Len(zip_codes))
                /\ acc.batch # <<>>
           THEN /\ batches' = Append(batches, acc.batch)
                /\ current_batch' = <<>>
           ELSE /\ current_batch' = IF branch \in {"raise", "processed"}
                                    THEN acc.batch ELSE current_batch
                /\ UNCHANGED batches

\* one iteration of the loop, the request of the zip meeting the responses
\* resps
HarvestZip(resps) ==
    LET r == fetch_with_retry(resps, zip_codes[i + 1])
    IN  r.outcome # "running" /\ EndIteration(r)

\* a zip code of the run
ProcessZip ==
    /\ mpc = "step3"
    /\ hpc = "loop"
    /\ i < Len(zip_codes)
    /\ \E resps \in Scenarios(zip_codes[i + 1]) : HarvestZip(resps)
    /\ UNCHANGED <<fetchVars, zip_codes, runVars>>

\* the end of the loop: the summary line, and the generator is exhausted
Finish ==
    /\ mpc = "step3"
    /\ hpc = "loop"
    /\ i = Len(zip_codes)
    /\ hpc' = "done"
    /\ UNCHANGED <<fetchVars, zip_codes, i, seen_store_ids, current_batch,
                   batches, log_failed, log_nodata, delays, fetched, runVars>>

\* the zip-code lists: DISTINCT, ORDER BY address__zip
RECURSIVE Ascending(_)
Ascending(s) ==
    Len(s) < 2 \/ (s[1] < s[2] /\ Ascending(Tail(s)))

ZipLists ==
    {s \in UNION {[1..n -> {ZipTable[k] : k \in 1..MaxZips}] : n \in 0..MaxZips} :
        Ascending(s)}

HarvestStart(zips) ==
    /\ zip_codes = zips
    /\ i = 0
    /\ seen_store_ids = {}
    /\ current_batch = <<>>
    /\ batches = <<>>
    /\ hpc = "loop"
    /\ log_failed = <<>>
    /\ log_nodata = <<>>
    /\ delays = <<>>
    /\ fetched = <<>>

FetchIdle ==
    /\ f = NewFetch
    /\ fzip = ZipTable[1]
    /\ fresps = <<>>

\* the duckdb file before anything was loaded
EmptyDb ==
    [tables |-> {}, all_stores |-> <<>>, food_waste_stores |-> <<>>,
     clearances |-> <<>>, runs |-> 0, pending |-> FALSE]

\* no call of the reader process was made yet
NoResponse == [kind |-> "none", rows |-> <<>>, llm |-> FALSE]

\* a reader process that has just started
ReaderIdle ==
    /\ db = EmptyDb
    /\ cache = <<>>
    /\ response = NoResponse

\* the image downloader is not running
ImagesIdle ==
    /\ image_tasks = <<>>
    /\ task_pc = <<>>
    /\ files = {}
    /\ written = {}

\* nothing runs beside the pipeline run, and no run came before it
AuxIdle ==
    /\ upstream = <<>>
    /\ prev_output = <<>>
    /\ ReaderIdle
    /\ ImagesIdle

\* __main__ at the step pc, over the stored rows
RunTables(pc, stores, clearances) ==
    /\ mpc = pc
    /\ store_table = stores
    /\ clearance_table = clearances
    /\ store_batches = <<>>
    /\ dir_fetch = NewFetch
    /\ old_stores = stores
    /\ old_clearances = clearances

\* __main__ at the step pc with nothing else going on
RunState(pc, stores, clearances) ==
    RunTables(pc, stores, clearances) /\ AuxIdle

\* the third step of __main__ under way, over the stored rows
HarvestRun(stores, clearances) == RunState("step3", stores, clearances)

Init ==
    /\ FetchIdle
    /\ HarvestRun(<<>>, <<>>)
    /\ \E zips \in ZipLists : HarvestStart(zips)

Next == ProcessZip \/ Finish

Spec == Init /\ [][Next]_vars

\* ------------------------------------------------------------------------
\* One call of fetch_with_retry, request by request
\* ------------------------------------------------------------------------

\* the payloads a single call is tried with
FetchPayloads(z) == {<<>>, <<Group(1, z, 1)>>}

\* what a request of the call can meet
Responses(z) == {OkResp(p) : p \in FetchPayloads(z)} \cup ErrResponses

\* one iteration of the retry loop
FetchAttempt ==
    /\ f.outcome = "running"
    /\ \E resp \in Responses(fzip) :
           /\ f' = FetchStep(f, resp, fzip)
           /\ fresps' = Append(fresps, resp)
    /\ UNCHANGED <<fzip, harvestVars, runVars>>

InitFetch ==
    /\ f = NewFetch
    /\ fzip \in {ZipTable[k] : k \in 1..MaxZips}
    /\ fresps = <<>>
    /\ HarvestStart(<<>>)
    /\ HarvestRun(<<>>, <<>>)

NextFetch == FetchAttempt

SpecFetch == InitFetch /\ [][NextFetch]_vars

\* the loop is sequential code: a request returns or raises, a sleep ends
FairSpecFetch == SpecFetch /\ WF_vars(FetchAttempt)

\* ------------------------------------------------------------------------
\* The harvester request by request: the loop calls fetch_with_retry and
\* goes on when the call is over
\* ------------------------------------------------------------------------

\* what a request of the harvester can meet
SeqResponses(z) ==
    {OkResp(<<>>), OkResp(<<Group(1, z, 1)>>), HttpErr(429, NoHint),
     NetErr(FALSE)}

\* BeginZip that does not wait for the call before it: the loop moves on to
\* the next zip code while the request is still under way
BeginZip_NoWait ==
    LET skip == IF hpc = "fetching" /\ f.outcome = "running" THEN 1 ELSE 0
    IN  /\ mpc = "step3"
        /\ hpc \in {"loop", "fetching"}
        /\ hpc = "fetching" => skip = 1
        /\ i + skip < Len(zip_codes)
        /\ i' = i + skip
        /\ f' = NewFetch
        /\ fzip' = zip_codes[i + skip + 1]
        /\ fresps' = <<>>
        /\ hpc' = "fetching"
        /\ UNCHANGED <<zip_codes, seen_store_ids, current_batch, batches,
                       log_failed, log_nodata, delays, fetched, runVars>>

\* stores = fetch_with_retry(client, "food-waste", params={"zip": zip_code})
\* is called for the next zip code
BeginZip ==
    /\ mpc = "step3"
    /\ hpc = "loop"
    /\ i < Len(zip_codes)
    /\ i' = i
    /\ f' = NewFetch
    /\ fzip' = zip_codes[i + 1]
    /\ fresps' = <<>>
    /\ hpc' = "fetching"
    /\ UNCHANGED <<zip_codes, seen_store_ids, current_batch, batches,
                   log_failed, log_nodata, delays, fetched, runVars>>

\* one request of the call under way
SeqAttempt ==
    /\ hpc = "fetching"
    /\ f.outcome = "running"
    /\ \E resp \in SeqResponses(fzip) :
           /\ f' = FetchStep(f, resp, fzip)
           /\ fresps' = Append(fresps, resp)
    /\ UNCHANGED <<fzip, harvestVars, runVars>>

\* the call is over and the iteration goes on with what it returned or raised
EndZip ==
    /\ hpc = "fetching"
    /\ f.outcome # "running"
    /\ EndIteration(f)
    /\ UNCHANGED <<fetchVars, zip_codes, runVars>>

InitSeq ==
    /\ FetchIdle
    /\ HarvestRun(<<>>, <<>>)
    /\ \E zips \in ZipLists : HarvestStart(zips)

NextSeq == BeginZip \/ SeqAttempt \/ EndZip \/ Finish

SpecSeq == InitSeq /\ [][NextSeq]_vars

\* ------------------------------------------------------------------------
\* The sink and __main__: pipeline.run(salling_stores_source()), the zip
\* query, pipeline.run(salling_food_waste_source(zip_codes))
\* ------------------------------------------------------------------------

\* the items of the yielded batches, in order
RECURSIVE Flatten(_)
Flatten(ss) == IF ss = <<>> THEN <<>> ELSE Head(ss) \o Flatten(Tail(ss))

\* @dlt.resource(name="all_stores", write_disposition="replace")
all_stores_write_disposition == "replace"

\* the disposition of food_waste_stores set to "append"
food_waste_write_disposition_Append == "append"

\* @dlt.resource(name="food_waste_stores", write_disposition="replace")
food_waste_write_disposition == "replace"

\* what a table holds once the batches a resource yielded are loaded: with
\* "replace" the prior rows are dropped, with "append" they are kept
SinkLoad(table, yielded, disposition) ==
    IF disposition = "replace"
    THEN Flatten(yielded)
    ELSE table \o Flatten(yielded)

\* pipeline.run that loads what was yielded also when the generator raised
\* or the run was interrupted
PipelineRun_LoadsPartial(table, status, yielded, disposition) ==
    SinkLoad(table, yielded, disposition)

\* pipeline.run(source): the resource's generator is run to its end and then
\* the batches are loaded; when the generator raises, or the run is
\* interrupted, nothing is loaded
PipelineRun(table, status, yielded, disposition) ==
    IF status = "done" THEN SinkLoad(table, yielded, disposition) ELSE table

\* params={"per_page": 1000, "country": "DK"}: the digits of the stores URL
per_page == 1000

\* the address.zip values of the upstream store objects
DirZips == {ZipTable[1], ZipTable[2], EmptyZip, NullZip}

\* a store object of the stores endpoint
DirectoryStore(s, z) ==
    [k \in DOMAIN UpstreamStore(s) \cup {"address__zip"} |->
        IF k = "address__zip" THEN z ELSE UpstreamStore(s)[k]]

DirectoryRows == {DirectoryStore(s, z) : s \in StoreIds, z \in DirZips}

\* the responses of the stores endpoint: no, one or two store objects
DirectoryPayloads ==
    {<<>>}
        \cup {<<a>> : a \in DirectoryRows}
        \cup {<<a, b>> : a \in DirectoryRows, b \in DirectoryRows}

\* the responses the directory request can meet
DirectoryScenarios ==
    {<<OkResp(p)>> : p \in DirectoryPayloads}
        \cup {<<HttpErr(429, NoHint), OkResp(p)>> : p \in DirectoryPayloads}
        \cup {Repeat(e, max_retries) : e \in ErrResponses}

\* coords = store_data.get("coordinates", []); longitude/latitude; pop
NormalizeStoreRow(store_data) ==
    LET coords == IF "coordinates" \in DOMAIN store_data
                  THEN store_data["coordinates"] ELSE <<>>
        keys == IF Len(coords) >= 2
                THEN (DOMAIN store_data \cup {"longitude", "latitude"})
                ELSE DOMAIN store_data
    IN  [k \in keys \ {"coordinates"} |->
            IF Len(coords) >= 2 /\ k = "longitude" THEN coords[1]
            ELSE IF Len(coords) >= 2 /\ k = "latitude" THEN coords[2]
            ELSE store_data[k]]

\* all_stores_resource, on the result r of its fetch: a raise of the fetch
\* leaves the generator, and so does len(stores) on None; otherwise one
\* batch with all the stores is yielded
all_stores_resource(r) ==
    IF r.outcome = "raised" \/ r.isNone
    THEN [status |-> "raised", yielded |-> <<>>]
    ELSE [status |-> "done",
          yielded |-> <<[k \in 1..Len(r.value) |->
                            NormalizeStoreRow(r.value[k])]>>]

\* load_info = pipeline.run(salling_stores_source()), the request of the
\* stores meeting the responses resps
RunStoresWith(resps) ==
    LET r == fetch_with_retry(resps, per_page)
        g == all_stores_resource(r)
    IN  /\ r.outcome # "running"
        /\ dir_fetch' = r
        /\ store_batches' = g.yielded
        /\ store_table' =
               PipelineRun(store_table, g.status, g.yielded,
                           all_stores_write_disposition)
        /\ mpc' = IF g.status = "done" THEN "step2" ELSE "failed"

\* step 1: load_info = pipeline.run(salling_stores_source())
RunStores ==
    /\ mpc = "step1"
    /\ \E resps \in DirectoryScenarios : RunStoresWith(resps)
    /\ UNCHANGED <<fetchVars, harvestVars, clearance_table, old_stores,
                   old_clearances,
                   auxVars>>

\* a set of zip values as the ascending list
RECURSIVE SortAscending(_)
SortAscending(zs) ==
    IF zs = {} THEN <<>>
    ELSE LET m == CHOOSE z \in zs : \A y \in zs : z <= y
         IN  <<m>> \o SortAscending(zs \ {m})

\* SELECT DISTINCT address__zip FROM salling_data.all_stores
\* WHERE address__zip IS NOT NULL ORDER BY address__zip
ExtractZipCodes(table) ==
    SortAscending({table[k]["address__zip"] : k \in 1..Len(table)} \ {NullZip})

\* step 2, and the source of step 3 built on its zip codes
RunZips ==
    /\ mpc = "step2"
    /\ mpc' = "step3"
    /\ zip_codes' = ExtractZipCodes(store_table)
    /\ UNCHANGED <<fetchVars, i, seen_store_ids, current_batch, batches, hpc,
                   log_failed, log_nodata, delays, fetched, store_table,
                   clearance_table, store_batches, dir_fetch, old_stores,
                   old_clearances,
                   auxVars>>

\* the end of step 3 that loads the batches yielded so far however it ends
EndHarvestRun_LoadsAnyway(how, pc) ==
    /\ mpc = "step3"
    /\ clearance_table' =
           PipelineRun(clearance_table, "done", batches,
                       food_waste_write_disposition)
    /\ mpc' = pc
    /\ UNCHANGED <<fetchVars, harvestVars, store_table, store_batches,
                   dir_fetch, old_stores, old_clearances,
                   auxVars>>

\* the end of step 3, how = "done" (the generator is exhausted: load),
\* "raised" (the generator raised) or "aborted" (interrupted)
EndHarvestRun(how, pc) ==
    /\ mpc = "step3"
    /\ clearance_table' =
           PipelineRun(clearance_table, how, batches,
                       food_waste_write_disposition)
    /\ mpc' = pc
    /\ UNCHANGED <<fetchVars, harvestVars, store_table, store_batches,
                   dir_fetch, old_stores, old_clearances,
                   auxVars>>

\* step 3 ends: the batches of the run are loaded
RunLoad == hpc = "done" /\ EndHarvestRun("done", "completed")

\* step 3 ends with the exception of the generator
RunExtractFailed == hpc = "raised" /\ EndHarvestRun("raised", "failed")

\* step 3 is interrupted between two zip codes
RunAbort ==
    hpc = "loop" /\ i >= 1 /\ i < Len(zip_codes)
        /\ EndHarvestRun("aborted", "aborted")

\* what an earlier run left stored: nothing, or two stores and the clearances
\* of one of them
PrevSnapshots ==
    {[stores |-> <<>>, clearances |-> <<>>],
     [stores |-> <<NormalizeStoreRow(DirectoryStore(1, ZipTable[1])),
                   NormalizeStoreRow(DirectoryStore(2, ZipTable[2]))>>,
      clearances |-> <<Annotate(Group(2, ZipTable[2], 0), ZipTable[2])>>]}

InitRun ==
    /\ FetchIdle
    /\ HarvestStart(<<>>)
    /\ \E prev \in PrevSnapshots :
           RunState("step1", prev.stores, prev.clearances)

NextRun ==
    \/ RunStores
    \/ RunZips
    \/ ProcessZip
    \/ Finish
    \/ RunLoad
    \/ RunExtractFailed
    \/ RunAbort

SpecRun == InitRun /\ [][NextRun]_vars

\* ------------------------------------------------------------------------
\* A run over store objects with every shape of the coordinates field
\* ------------------------------------------------------------------------

\* the coordinates field of an upstream store object: absent, or a list of
\* no, one, two or three numbers
CoordCases ==
    {[has |-> FALSE, val |-> <<>>]}
        \cup {[has |-> TRUE, val |-> v] :
                 v \in {<<>>, <<12>>, <<12, 55>>, <<12, 55, 7>>}}

\* a store object with the coordinates field c
CoordStore(s, c) ==
    IF c.has THEN ("id" :> s @@ "coordinates" :> c.val) ELSE ("id" :> s)

\* the store objects of the stores endpoint, all of one zip code
CoordDirectoryRows ==
    {CoordStore(s, c) @@ "address__zip" :> ZipTable[1] :
        s \in StoreIds, c \in CoordCases}

\* the groups of the food-waste endpoint
CoordGroups(z, k) ==
    {("store" :> CoordStore(s, c) @@ "clearances" :> <<z, k>>) :
        s \in StoreIds, c \in CoordCases}

\* step 1 over such store objects
NormStores ==
    /\ mpc = "step1"
    /\ \E p \in {<<a>> : a \in CoordDirectoryRows}
                 \cup {<<a, b>> : a \in CoordDirectoryRows,
                                  b \in CoordDirectoryRows} :
           RunStoresWith(<<OkResp(p)>>)
    /\ UNCHANGED <<fetchVars, harvestVars, clearance_table, old_stores,
                   old_clearances,
                   auxVars>>

\* an iteration of the harvester over such groups
NormZip ==
    /\ mpc = "step3"
    /\ hpc = "loop"
    /\ i < Len(zip_codes)
    /\ \E p \in {<<a>> : a \in CoordGroups(zip_codes[i + 1], 1)}
                 \cup {<<a, b>> : a \in CoordGroups(zip_codes[i + 1], 1),
                                  b \in CoordGroups(zip_codes[i + 1], 2)} :
           HarvestZip(<<OkResp(p)>>)
    /\ UNCHANGED <<fetchVars, zip_codes, runVars>>

InitNorm ==
    /\ FetchIdle
    /\ HarvestStart(<<>>)
    /\ RunState("step1", <<>>, <<>>)

NextNorm == NormStores \/ RunZips \/ NormZip \/ Finish \/ RunLoad

SpecNorm == InitNorm /\ [][NextNorm]_vars

\* ------------------------------------------------------------------------
\* The harvester run twice over one zip-code list against an upstream that
\* answers each zip request the same way both times
\* ------------------------------------------------------------------------

\* the zip-code list of the two runs
TwiceZips == <<ZipTable[1], ZipTable[2]>>

\* the upstreams: what the request of each zip code meets
Upstreams ==
    {(TwiceZips[1] :> a @@ TwiceZips[2] :> b) :
        a \in Scenarios(TwiceZips[1]), b \in Scenarios(TwiceZips[2])}

\* an iteration of the harvester against the upstream
TwiceZip ==
    /\ mpc = "step3"
    /\ hpc = "loop"
    /\ i < Len(zip_codes)
    /\ HarvestZip(upstream[zip_codes[i + 1]])
    /\ UNCHANGED <<fetchVars, zip_codes, runVars>>

\* the resource called again with seen_store_ids kept from the run before
\* (a set that outlives the generator)
Rerun_KeepsSeen ==
    /\ hpc \in {"done", "raised"}
    /\ prev_output = <<>>
    /\ prev_output' = Append(prev_output, Flatten(batches))
    /\ i' = 0
    /\ seen_store_ids' = seen_store_ids
    /\ current_batch' = <<>>
    /\ batches' = <<>>
    /\ hpc' = "loop"
    /\ log_failed' = <<>>
    /\ log_nodata' = <<>>
    /\ delays' = <<>>
    /\ fetched' = <<>>
    /\ UNCHANGED <<fetchVars, zip_codes, mpc, store_table, clearance_table,
                   store_batches, dir_fetch, old_stores, old_clearances,
                   upstream, readerVars,
                   imageVars>>

\* the run is over (generator exhausted, or left by an exception) and
\* food_waste_stores_resource is called again with the same zip_codes:
\* seen_store_ids = set(), current_batch = []
Rerun ==
    /\ hpc \in {"done", "raised"}
    /\ prev_output = <<>>
    /\ prev_output' = Append(prev_output, Flatten(batches))
    /\ i' = 0
    /\ seen_store_ids' = {}
    /\ current_batch' = <<>>
    /\ batches' = <<>>
    /\ hpc' = "loop"
    /\ log_failed' = <<>>
    /\ log_nodata' = <<>>
    /\ delays' = <<>>
    /\ fetched' = <<>>
    /\ UNCHANGED <<fetchVars, zip_codes, mpc, store_table, clearance_table,
                   store_batches, dir_fetch, old_stores, old_clearances,
                   upstream, readerVars,
                   imageVars>>

InitTwice ==
    /\ FetchIdle
    /\ HarvestStart(TwiceZips)
    /\ RunTables("step3", <<>>, <<>>)
    /\ upstream \in Upstreams
    /\ prev_output = <<>>
    /\ ReaderIdle
    /\ ImagesIdle

NextTwice == TwiceZip \/ Finish \/ Rerun

SpecTwice == InitTwice /\ [][NextTwice]_vars

\* ------------------------------------------------------------------------
\* The reader processes (app.py, web/backend/main.py) and the tables they
\* query
\* ------------------------------------------------------------------------

\* a row of all_stores, loaded by the load g
StoreRow(s, g) == [id |-> s, name |-> g]

\* the all_stores table replaced by the rows of the stores of ids, load g
LoadStores(d, ids, g) ==
    [d EXCEPT !.tables = @ \cup (IF ids = <<>> THEN {} ELSE {"all_stores"}),
              !.all_stores = [n \in 1..Len(ids) |-> StoreRow(ids[n], g)]]

\* the rows of food_waste_stores__clearances of the n-th record of a load
ChildRows(rec, n, g) ==
    [k \in 1..Len(rec["clearances"]) |->
        [_dlt_parent_id |-> <<g, n>>,
         product__description |-> rec["clearances"][k].description,
         offer__stock |-> rec["clearances"][k].stock,
         offer__end_time |-> rec["clearances"][k].endTime]]

\* food_waste_stores and its child table replaced by the records of load g;
\* a table comes into being with its first row
LoadClearances(d, records, g) ==
    LET fw == [n \in 1..Len(records) |->
                  [store__id |-> records[n]["store"]["id"],
                   _dlt_id |-> <<g, n>>]]
        children == Flatten([n \in 1..Len(records) |->
                                ChildRows(records[n], n, g)])
    IN  [d EXCEPT !.tables =
                      @ \cup (IF fw = <<>> THEN {} ELSE {"food_waste_stores"})
                        \cup (IF children = <<>> THEN {}
                              ELSE {"food_waste_stores__clearances"}),
                  !.food_waste_stores = fw,
                  !.clearances = children]

\* the join of get_store_clearances without its test of the stock
ClearanceJoin_NoStockFilter(d, sid) ==
    {q \in (1..Len(d.all_stores)) \X (1..Len(d.food_waste_stores))
               \X (1..Len(d.clearances)) :
        /\ d.all_stores[q[1]].id = d.food_waste_stores[q[2]].store__id
        /\ d.food_waste_stores[q[2]]._dlt_id =
               d.clearances[q[3]]._dlt_parent_id
        /\ d.all_stores[q[1]].id = sid}

\* FROM all_stores s INNER JOIN food_waste_stores fw ON s.id = fw.store__id
\* INNER JOIN food_waste_stores__clearances c ON fw._dlt_id =
\* c._dlt_parent_id WHERE s.id = ? AND CAST(c.offer__stock AS DOUBLE) > 0
ClearanceJoin(d, sid) ==
    {q \in (1..Len(d.all_stores)) \X (1..Len(d.food_waste_stores))
               \X (1..Len(d.clearances)) :
        /\ d.all_stores[q[1]].id = d.food_waste_stores[q[2]].store__id
        /\ d.food_waste_stores[q[2]]._dlt_id =
               d.clearances[q[3]]._dlt_parent_id
        /\ d.all_stores[q[1]].id = sid
        /\ d.clearances[q[3]].offer__stock > 0}

\* ORDER BY c.offer__end_time ASC: the orders the rows can come in (rows of
\* equal end time in any order)
OrderedByEndTime(d, joined) ==
    {o \in [1..Cardinality(joined) -> joined] :
        /\ \A m, n \in DOMAIN o : o[m] = o[n] => m = n
        /\ \A m, n \in DOMAIN o :
               m < n => d.clearances[o[m][3]].offer__end_time
                            <= d.clearances[o[n][3]].offer__end_time}

\* the selected columns of the joined rows, in the order o
SelectClearances(d, o) ==
    [n \in DOMAIN o |->
        [product__description |-> d.clearances[o[n][3]].product__description,
         offer__stock |-> d.clearances[o[n][3]].offer__stock,
         offer__end_time |-> d.clearances[o[n][3]].offer__end_time]]

Rows(rows) == [kind |-> "rows", rows |-> rows, llm |-> FALSE]

Raised == [kind |-> "raised", rows |-> <<>>, llm |-> FALSE]

\* the clearances query of both files on the tables, with what it can give
ClearanceQuery(d, sid) ==
    {Rows(SelectClearances(d, o)) :
        o \in OrderedByEndTime(d, ClearanceJoin(d, sid))}

ClearanceTables == {"food_waste_stores", "food_waste_stores__clearances"}

\* app.py get_store_clearances, uncached: the query raises when a table of
\* it does not exist
app_get_store_clearances(d, sid) ==
    IF ClearanceTables \cup {"all_stores"} \subseteq d.tables
    THEN ClearanceQuery(d, sid)
    ELSE {Raised}

\* main.py get_store_clearances, uncached: () unless both clearance tables
\* exist
backend_get_store_clearances(d, sid) ==
    IF ~(ClearanceTables \subseteq d.tables) THEN {Rows(<<>>)}
    ELSE IF "all_stores" \in d.tables THEN ClearanceQuery(d, sid)
    ELSE {Raised}

Frontends == {"app", "backend"}

get_store_clearances(fe, d, sid) ==
    IF fe = "app" THEN app_get_store_clearances(d, sid)
    ELSE backend_get_store_clearances(d, sid)

\* @lru_cache over the entries cch: the value cached under the key, or else
\* one of the results of the call, which is cached unless it is an exception
CachedCallIn(cch, key, results) ==
    IF key \in DOMAIN cch
    THEN {[result |-> cch[key], cache |-> cch]}
    ELSE {[result |-> r,
           cache |-> IF r.kind = "raised" THEN cch ELSE (key :> r) @@ cch] :
             r \in results}

CachedCall(key, results) == CachedCallIn(cache, key, results)

\* the cache is the one of a process of the frontend fe
SameProcess(fe) == \A key \in DOMAIN cache : key[1] = fe

\* a call of get_store_clearances(store_id) in a reader process
ReadClearances ==
    /\ \E fe \in Frontends, sid \in StoreIds :
           /\ SameProcess(fe)
           /\ \E c \in CachedCall(<<fe, "get_store_clearances", sid>>,
                                  get_store_clearances(fe, db, sid)) :
                  /\ response' = c.result
                  /\ cache' = c.cache
    /\ UNCHANGED <<fetchVars, harvestVars, mpc, store_table, clearance_table,
                   store_batches, dir_fetch, old_stores, old_clearances,
                   upstream, prev_output, db,
                   imageVars>>

\* ------------------------------------------------------------------------
\* One harvest over offers of every stock, loaded and read
\* ------------------------------------------------------------------------

\* the offers of a group: their stock and end time
Offers ==
    {[description |-> 1, stock |-> st, endTime |-> t] :
        <<st, t>> \in {<<0, 1>>, <<3, 1>>, <<3, 2>>, <<-1, 2>>}}

\* the clearances lists of a group: up to three offers
OfferLists ==
    {<<>>} \cup {<<a>> : a \in Offers}
        \cup {<<a, b>> : a \in Offers, b \in Offers}
        \cup {<<a, b, c>> : a \in Offers, b \in Offers, c \in Offers}

\* an iteration of the harvester over a group with such offers
StockZip ==
    /\ mpc = "step3"
    /\ hpc = "loop"
    /\ i < Len(zip_codes)
    /\ \E s \in StoreIds, offers \in OfferLists :
           HarvestZip(<<OkResp(<<("store" :> UpstreamStore(s)
                                     @@ "clearances" :> offers)>>)>>)
    /\ UNCHANGED <<fetchVars, zip_codes, runVars>>

\* step 3 ends: the batches of the run are loaded into the file
StockLoad ==
    /\ mpc = "step3"
    /\ hpc = "done"
    /\ mpc' = "completed"
    /\ clearance_table' =
           PipelineRun(clearance_table, "done", batches,
                       food_waste_write_disposition)
    /\ db' = LoadClearances(db, Flatten(batches), 1)
    /\ response' = NoResponse
    /\ UNCHANGED <<fetchVars, harvestVars, store_table, store_batches,
                   dir_fetch, old_stores, old_clearances, upstream,
                   prev_output, cache,
                   imageVars>>

InitStock ==
    /\ FetchIdle
    /\ HarvestStart(<<ZipTable[1]>>)
    /\ RunTables("step3", <<>>, <<>>)
    /\ upstream = <<>>
    /\ prev_output = <<>>
    /\ db = LoadStores(EmptyDb, [s \in StoreIds |-> s], 1)
    /\ cache = <<>>
    /\ response = NoResponse
    /\ ImagesIdle

NextStock == StockZip \/ Finish \/ StockLoad \/ ReadClearances

SpecStock == InitStock /\ [][NextStock]_vars

\* ------------------------------------------------------------------------
\* A reader process beside pipeline runs that replace the tables
\* ------------------------------------------------------------------------

MaxRuns == 2

\* the store ids a run's directory can hold
AppStoreLists == {<<1>>, [s \in StoreIds |-> s]}

\* a record of food_waste_stores of the run g: one offer of the stock st
AppRecord(s, g, st) ==
    [store |-> [id |-> s],
     clearances |-> <<[description |-> g, stock |-> st, endTime |-> 1]>>]

\* the records step 3 of the run g can load
AppRecords(g) ==
    {<<>>, <<AppRecord(1, g, 3)>>, <<AppRecord(1, g, 0)>>,
     <<AppRecord(1, g, 3), AppRecord(2, g, 3)>>}

\* step 1 of a pipeline run has loaded all_stores
CommitStores ==
    /\ db.runs < MaxRuns
    /\ \E ids \in AppStoreLists :
           db' = [LoadStores(db, ids, db.runs + 1) EXCEPT
                      !.runs = db.runs + 1, !.pending = TRUE]
    /\ response' = NoResponse
    /\ UNCHANGED <<fetchVars, harvestVars, mpc, store_table, clearance_table,
                   store_batches, dir_fetch, old_stores, old_clearances,
                   upstream, prev_output, cache,
                   imageVars>>

\* step 3 of the pipeline run has loaded food_waste_stores
CommitClearances ==
    /\ db.pending
    /\ \E records \in AppRecords(db.runs) :
           db' = [LoadClearances(db, records, db.runs) EXCEPT
                      !.pending = FALSE]
    /\ response' = NoResponse
    /\ UNCHANGED <<fetchVars, harvestVars, mpc, store_table, clearance_table,
                   store_batches, dir_fetch, old_stores, old_clearances,
                   upstream, prev_output, cache,
                   imageVars>>

\* get_store_details, uncached: SELECT ... FROM all_stores WHERE id = ?
\* LIMIT 1; no row gives None (here no rows)
get_store_details(d, sid) ==
    IF "all_stores" \notin d.tables THEN {Raised}
    ELSE IF \A n \in 1..Len(d.all_stores) : d.all_stores[n].id # sid
    THEN {Rows(<<>>)}
    ELSE {Rows(<<d.all_stores[n]>>) :
             n \in {m \in 1..Len(d.all_stores) : d.all_stores[m].id = sid}}

\* a call of get_store_details(store_id) in a reader process
ReadDetails ==
    /\ \E fe \in Frontends, sid \in StoreIds :
           /\ SameProcess(fe)
           /\ \E c \in CachedCall(<<fe, "get_store_details", sid>>,
                                  get_store_details(db, sid)) :
                  /\ response' = c.result
                  /\ cache' = c.cache
    /\ UNCHANGED <<fetchVars, harvestVars, mpc, store_table, clearance_table,
                   store_batches, dir_fetch, old_stores, old_clearances,
                   upstream, prev_output, db,
                   imageVars>>

\* the rows of all_stores some of the rows sel of which are chosen, each
\* once (SELECT DISTINCT), in the order of the table
DistinctStores(d, sel) ==
    LET first == {n \in sel : \A m \in sel :
                     d.all_stores[m] = d.all_stores[n] => n <= m}
        order == SortAscending(first)
    IN  [k \in 1..Len(order) |-> d.all_stores[order[k]]]

\* app.py get_stores, uncached: SELECT DISTINCT ... FROM all_stores
app_get_stores(d) ==
    IF "all_stores" \notin d.tables THEN {Raised}
    ELSE {Rows(DistinctStores(d, 1..Len(d.all_stores)))}

\* main.py get_all_stores, uncached: the stores with an offer in stock
backend_get_all_stores(d) ==
    IF ~(ClearanceTables \subseteq d.tables) THEN {Rows(<<>>)}
    ELSE IF "all_stores" \notin d.tables THEN {Raised}
    ELSE {Rows(DistinctStores(d,
              {n \in 1..Len(d.all_stores) :
                  ClearanceJoin(d, d.all_stores[n].id) # {}}))}

\* a call of get_stores() (app.py) or get_all_stores() (main.py)
ReadStores ==
    /\ \E fe \in Frontends :
           /\ SameProcess(fe)
           /\ \E c \in CachedCall(<<fe, "get_stores", 0>>,
                                  IF fe = "app" THEN app_get_stores(db)
                                  ELSE backend_get_all_stores(db)) :
                  /\ response' = c.result
                  /\ cache' = c.cache
    /\ UNCHANGED <<fetchVars, harvestVars, mpc, store_table, clearance_table,
                   store_batches, dir_fetch, old_stores, old_clearances,
                   upstream, prev_output, db,
                   imageVars>>

\* the store_id of a request without a store: "" or None
NoStore == 0

\* what a chat request for the store sid came to: "llm" (the model was
\* called), "message" (a fixed message), "http404", "http500" or "error"
\* (an exception leaves the handler)
ChatResult(kind, sid) == [kind |-> kind, rows |-> <<sid>>, llm |-> kind = "llm"]

\* the rest of a chat request once the store is known: the clearances are
\* fetched; onraise is what an exception of the fetch comes to
ChatClearances(fe, cch, d, sid, onraise) ==
    {[result |-> IF c.result.kind = "raised" THEN ChatResult(onraise, sid)
                 ELSE IF c.result.rows = <<>> THEN ChatResult("message", sid)
                 ELSE ChatResult("llm", sid),
      cache |-> c.cache] :
        c \in CachedCallIn(cch, <<fe, "get_store_clearances", sid>>,
                           get_store_clearances(fe, d, sid))}

\* a chat request: the store details are fetched, then the clearances;
\* missing is what a store that is not found comes to
ChatStore(fe, cch, d, sid, missing, onraise) ==
    UNION {IF c.result.kind = "raised"
           THEN {[result |-> ChatResult(onraise, sid), cache |-> c.cache]}
           ELSE IF c.result.rows = <<>>
           THEN {[result |-> ChatResult(missing, sid), cache |-> c.cache]}
           ELSE ChatClearances(fe, c.cache, d, sid, onraise) :
             c \in CachedCallIn(cch, <<fe, "get_store_details", sid>>,
                                get_store_details(d, sid))}

\* app.py chat_response: the three guards yield a message and return; an
\* exception of a query leaves the generator
chat_response(cch, d, sid) ==
    IF sid = NoStore
    THEN {[result |-> ChatResult("message", sid), cache |-> cch]}
    ELSE ChatStore("app", cch, d, sid, "message", "error")

\* main.py chat: 404 for a store that is not found, 500 for any other
\* exception
chat(cch, d, sid) == ChatStore("backend", cch, d, sid, "http404", "http500")

\* a chat request in a reader process
Chat ==
    /\ \E fe \in Frontends, sid \in StoreIds \cup {NoStore} :
           /\ SameProcess(fe)
           /\ \E c \in (IF fe = "app" THEN chat_response(cache, db, sid)
                        ELSE chat(cache, db, sid)) :
                  /\ response' = c.result
                  /\ cache' = c.cache
    /\ UNCHANGED <<fetchVars, harvestVars, mpc, store_table, clearance_table,
                   store_batches, dir_fetch, old_stores, old_clearances,
                   upstream, prev_output, db,
                   imageVars>>

\* the reader process starts on the file as step 1 of the first pipeline
\* run left it
InitApp ==
    /\ FetchIdle
    /\ HarvestStart(<<>>)
    /\ RunTables("step1", <<>>, <<>>)
    /\ upstream = <<>>
    /\ prev_output = <<>>
    /\ \E ids \in AppStoreLists :
           db = [LoadStores(EmptyDb, ids, 1) EXCEPT
                     !.runs = 1, !.pending = TRUE]
    /\ cache = <<>>
    /\ response = NoResponse
    /\ ImagesIdle

NextApp ==
    \/ CommitStores
    \/ CommitClearances
    \/ ReadStores
    \/ ReadDetails
    \/ ReadClearances
    \/ Chat

SpecApp == InitApp /\ [][NextApp]_vars

\* ------------------------------------------------------------------------
\* download_product_images.py: one run of main, whose tasks the threads of
\* a pool work through, each task by process_image
\* ------------------------------------------------------------------------

\* number of concurrent download threads
MAX_WORKERS == 10

\* the most rows the query of main gives in the model
MaxTasks == 3

\* The image urls of the clearance rows.  id is what tells one url text
\* from another, ext the extension of the url's path, stub says that the
\* text ends in "/image", length is the length of the text.
ImageUrls ==
    { [id |-> 1, ext |-> ".png", stub |-> FALSE, length |-> 60],
      [id |-> 2, ext |-> "", stub |-> FALSE, length |-> 60],
      [id |-> 3, ext |-> "", stub |-> TRUE, length |-> 60],
      [id |-> 4, ext |-> ".jpg", stub |-> FALSE, length |-> 18] }

\* the product descriptions of the clearance rows
ProductNames == {1, 2}

\* md5(url).hexdigest()[:16]: the same text gives the same digest, and the
\* urls of the model are few enough that no two of them share one
UrlHash(url) == url.id

\* the file name of an image: the digest of its url and the extension of the
\* url's path, ".jpg" when the path has none
get_image_filename(image_url) ==
    <<UrlHash(image_url), IF image_url.ext = "" THEN ".jpg" ELSE image_url.ext>>

\* static/product-images/placeholder.svg
placeholder_path == <<0, ".svg">>

\* the WHERE clause of the query of main (a url of the model is never NULL
\* and never empty)
ImageWanted(url) == ~url.stub /\ url.length > 20

\* SELECT DISTINCT product__image, product__description: the distinct pairs
\* of the rows whose image is wanted
DistinctImages(rows) == {r \in rows : ImageWanted(r[1])}

\* the orders ORDER BY product__description may give the pairs in
OrderedByDescription(pairs) ==
    { s \in [1..Cardinality(pairs) -> pairs] :
          /\ \A a, b \in DOMAIN s : a # b => s[a] # s[b]
          /\ \A a, b \in DOMAIN s : a < b => s[a][2] <= s[b][2] }

\* the task main prepares for one row of the query
ImageTask(row) ==
    [url |-> row[1], product |-> row[2],
     filename |-> get_image_filename(row[1])]

\* the tasks a thread of the pool is working on
Running == {t \in DOMAIN task_pc : task_pc[t] = "downloading"}

\* main up to the submission of the tasks: the query, one task per row of
\* its result, every task queued in the pool
Main ==
    /\ image_tasks = <<>>
    /\ \E rows \in SUBSET (ImageUrls \X ProductNames) :
           /\ Cardinality(rows) <= MaxTasks
           /\ \E images \in OrderedByDescription(DistinctImages(rows)) :
                  /\ image_tasks' = [k \in DOMAIN images |->
                                         ImageTask(images[k])]
                  /\ task_pc' = [k \in DOMAIN images |-> "queued"]
    /\ UNCHANGED <<fetchVars, harvestVars, mpc, store_table, clearance_table,
                   store_batches, dir_fetch, old_stores, old_clearances,
                   upstream, prev_output, readerVars, files, written>>

\* a free thread of the pool takes a queued task and process_image tests
\* whether its output file exists: if so the task is over as "cached"
ProcessImage_Exists(t) ==
    /\ task_pc[t] = "queued"
    /\ Cardinality(Running) < MAX_WORKERS
    /\ task_pc' = [task_pc EXCEPT ![t] =
                       IF image_tasks[t].filename \in files
                           THEN "cached" ELSE "downloading"]
    /\ UNCHANGED <<fetchVars, harvestVars, mpc, store_table, clearance_table,
                   store_batches, dir_fetch, old_stores, old_clearances,
                   upstream, prev_output, readerVars, image_tasks, files, written>>

\* download_image either saves the image at the output path or fails, and
\* then process_image copies the placeholder there if there is one
ProcessImage_Download(t) ==
    /\ task_pc[t] = "downloading"
    /\ \E success \in BOOLEAN :
           LET writes == success \/ placeholder_path \in files
           IN  /\ files' = IF writes
                               THEN files \cup {image_tasks[t].filename}
                               ELSE files
               /\ written' = IF writes THEN written \cup {t} ELSE written
               /\ task_pc' = [task_pc EXCEPT ![t] =
                                  IF success THEN "success" ELSE "failed"]
    /\ UNCHANGED <<fetchVars, harvestVars, mpc, store_table, clearance_table,
                   store_batches, dir_fetch, old_stores, old_clearances,
                   upstream, prev_output, readerVars, image_tasks>>

\* the downloader starts beside an idle pipeline, on a directory that holds
\* any of the files earlier runs may have left
InitImages ==
    /\ FetchIdle
    /\ HarvestStart(<<>>)
    /\ RunTables("step1", <<>>, <<>>)
    /\ upstream = <<>>
    /\ prev_output = <<>>
    /\ ReaderIdle
    /\ image_tasks = <<>>
    /\ task_pc = <<>>
    /\ files \in SUBSET ({get_image_filename(u) : u \in ImageUrls}
                             \cup {placeholder_path})
    /\ written = {}

NextImages ==
    \/ Main
    \/ \E t \in DOMAIN task_pc : ProcessImage_Exists(t)
    \/ \E t \in DOMAIN task_pc : ProcessImage_Download(t)

SpecImages == InitImages /\ [][NextImages]_vars

\* ------------------------------------------------------------------------
\* Long runs of the harvester: every zip code brings one store nobody else
\* has, except that at the positions where a flush is due the request may
\* also fail, find nothing, or find only a store already seen.
\* ------------------------------------------------------------------------

\* the k-th zip code of a long run
BatchZip(k) == 1000 + k

\* the store only the k-th zip code of a long run has
BatchStore(k) == NumStores + k

FreshScenario(n, z) == <<OkResp(<<Group(BatchStore(n), z, 1)>>)>>

FaultScenarios(n, z) ==
    {<<OkResp(<<>>)>>,
     Repeat(HttpErr(429, NoHint), max_retries),
     Repeat(HttpErr(500, NoHint), max_retries),
     Repeat(NetErr(FALSE), max_retries),
     <<OkResp(<<MalformedGroup(z, 1)>>)>>}
        \cup (IF n > 1
              THEN {<<OkResp(<<Group(BatchStore(n - 1), z, 1)>>)>>}
              ELSE {})

BatchScenarios(n, z, len) ==
    {FreshScenario(n, z)}
        \cup (IF FlushDue(n, len) THEN FaultScenarios(n, z) ELSE {})

ProcessBatchZip ==
    /\ mpc = "step3"
    /\ hpc = "loop"
    /\ i < Len(zip_codes)
    /\ \E resps \in BatchScenarios(i + 1, zip_codes[i + 1], Len(zip_codes)) :
           HarvestZip(resps)
    /\ UNCHANGED <<fetchVars, zip_codes, runVars>>

InitBatch ==
    /\ FetchIdle
    /\ \E prev \in PrevSnapshots : HarvestRun(prev.stores, prev.clearances)
    /\ \E n \in 1..MaxBatchZips : HarvestStart([k \in 1..n |-> BatchZip(k)])

NextBatch ==
    \/ ProcessBatchZip
    \/ Finish
    \/ RunLoad
    \/ RunExtractFailed
    \/ RunAbort

SpecBatch == InitBatch /\ [][NextBatch]_vars

\* ------------------------------------------------------------------------
\* Properties of the harvester
\* ------------------------------------------------------------------------

\* the records of the run's output: the yielded batches, then the accumulator
Kept == Flatten(batches) \o current_batch

\* the positions of the groups of store s in a payload
GroupsOf(payload, s) ==
    {k \in 1..Len(payload) :
        HasStoreId(payload[k]) /\ payload[k]["store"]["id"] = s}

\* the request of the j-th zip code succeeded and its response lists store s
Returned(j, s) ==
    fetched[j].completed /\ GroupsOf(fetched[j].payload, s) # {}

\* the request of the j-th zip code got no successful response
Exhausted(j) == ~fetched[j].completed

\* the stores the responses so far list
ReturnedStores ==
    {s \in 1..(NumStores + MaxBatchZips) :
        \E j \in 1..Len(fetched) : Returned(j, s)}

\* C1: first-seen-wins.  Every record of the output comes from the first zip
\* code, in iteration order, whose successful response lists its store: it
\* carries that zip code as queried_zip_code and the clearances of that
\* response's first group of the store, and nothing of a later group; and
\* while the generator lives, every store a response listed has a record.
FirstSeenWins ==
    /\ \A n \in 1..Len(Kept) :
           LET rec == Kept[n]
               s == rec["store"]["id"]
           IN  \E j \in 1..Len(fetched) :
                   /\ Returned(j, s)
                   /\ \A e \in 1..(j - 1) : ~Returned(e, s)
                   /\ rec["queried_zip_code"] = zip_codes[j]
                   /\ \E k \in GroupsOf(fetched[j].payload, s) :
                          /\ \A e \in GroupsOf(fetched[j].payload, s) : k <= e
                          /\ rec["clearances"] =
                                 fetched[j].payload[k]["clearances"]
    /\ hpc # "raised" =>
           \A s \in ReturnedStores :
               \E n \in 1..Len(Kept) : Kept[n]["store"]["id"] = s

\* C1, its case: two zip codes returned the same store and the run ended
FirstSeenWinsWitness ==
    /\ hpc = "done"
    /\ \E s \in StoreIds : \E j1, j2 \in 1..Len(fetched) :
           /\ j1 < j2
           /\ Returned(j1, s)
           /\ Returned(j2, s)
           /\ \E n \in 1..Len(Kept) :
                  /\ Kept[n]["store"]["id"] = s
                  /\ Kept[n]["queried_zip_code"] = zip_codes[j1]

\* C2: no accepted store is lost.  When the generator is exhausted the
\* accumulator is empty and every store of seen_store_ids is in exactly one
\* yielded batch.
NothingLeftAtEnd ==
    hpc = "done" =>
        /\ current_batch = <<>>
        /\ \A s \in seen_store_ids :
               Cardinality({n \in 1..Len(Flatten(batches)) :
                   Flatten(batches)[n]["store"]["id"] = s}) = 1

\* C3: a zip code's failure never aborts the run.  Right after a request
\* that exhausted its retries the generator has not raised; the zip codes are
\* requested one after the other in the order of the list; and the run ends
\* only when every zip code has been requested.
FailureNeverAborts ==
    /\ (i >= 1 /\ Len(fetched) = i /\ Exhausted(i)) => hpc # "raised"
    /\ Len(fetched) = i
    /\ \A j \in 1..Len(fetched) : fetched[j].zip = zip_codes[j]
    /\ hpc = "done" => i = Len(zip_codes)

\* C3, its case: a request that exhausted its retries by raising, one that
\* exhausted them on 429 and one on 5xx, each followed by the request of the
\* next zip code, in a run that ended
FailureNeverAbortsWitness ==
    /\ hpc = "done"
    /\ Len(fetched) = 3
    /\ Exhausted(1) /\ fetched[1].outcome = "raised"
    /\ Exhausted(2) /\ fetched[2].isNone
    /\ fetched[3].completed /\ fetched[3].payload # <<>>

\* the members of a sequence
Range(seq) == {seq[k] : k \in 1..Len(seq)}

\* C4: failed and no-data zip codes are told apart.  A zip code is logged as
\* failed exactly when its request exhausted the retries, and as no-data
\* exactly when a request of it succeeded with zero results.
FailedAndNoDataToldApart ==
    \A j \in 1..Len(fetched) :
        /\ (fetched[j].zip \in Range(log_failed)) <=> Exhausted(j)
        /\ (fetched[j].zip \in Range(log_nodata)) <=>
               (fetched[j].completed /\ fetched[j].payload = <<>>)

\* C5: across the output of a run every store id occurs at most once.
NoDuplicateStoreIds ==
    \A n, m \in 1..Len(Kept) :
        Kept[n]["store"]["id"] = Kept[m]["store"]["id"] => n = m

\* C5, its case: a store listed twice by one response and again by a later
\* zip code, in a run that ended
NoDuplicateStoreIdsWitness ==
    /\ hpc = "done"
    /\ \E s \in StoreIds : \E j1, j2 \in 1..Len(fetched) :
           /\ j1 < j2
           /\ fetched[j1].completed
           /\ Cardinality(GroupsOf(fetched[j1].payload, s)) = 2
           /\ Returned(j2, s)
           /\ Cardinality({n \in 1..Len(Kept) : Kept[n]["store"]["id"] = s}) = 1

\* ------------------------------------------------------------------------
\* Properties of the batching
\* ------------------------------------------------------------------------

\* the position of a zip code in the list
PosOf(z) == CHOOSE j \in 1..Len(zip_codes) : zip_codes[j] = z

\* the zip positions the records of a batch came from
PositionsOf(batch) ==
    {PosOf(batch[n]["queried_zip_code"]) : n \in 1..Len(batch)}

\* the request of the j-th zip code succeeded with a store no earlier
\* response listed
BroughtNew(j) ==
    /\ fetched[j].completed
    /\ \E k \in 1..Len(fetched[j].payload) :
           /\ HasStoreId(fetched[j].payload[k])
           /\ \A e \in 1..(j - 1) :
                  ~Returned(e, fetched[j].payload[k]["store"]["id"])

AllBroughtNew == \A j \in 1..Len(fetched) : BroughtNew(j)

Min(a, b) == IF a < b THEN a ELSE b

\* C6: batch count.  A run over N zip codes whose every request succeeds
\* with at least one store not seen before yields exactly ceil(N/20) batches,
\* the k-th holding the stores of the zip positions 20(k-1)+1 .. min(20k, N).
BatchCount ==
    (hpc = "done" /\ AllBroughtNew) =>
        /\ Len(batches) = (Len(zip_codes) + 19) \div 20
        /\ \A k \in 1..Len(batches) :
               PositionsOf(batches[k]) =
                   (20 * (k - 1) + 1)..Min(20 * k, Len(zip_codes))

\* C6, its case: 45 zip codes yield three batches of 20, 20 and 5
BatchCountWitness ==
    /\ hpc = "done"
    /\ AllBroughtNew
    /\ Len(zip_codes) = 45
    /\ Len(batches) = 3
    /\ Len(batches[1]) = 20
    /\ Len(batches[2]) = 20
    /\ Len(batches[3]) = 5

\* C7: bounded accumulation.  No yielded batch holds stores of more than 20
\* consecutive zip positions, and whenever the number of processed zip codes
\* is a multiple of 20 the accumulator has been emptied before the next zip
\* code is requested.
BoundedAccumulation ==
    /\ \A k \in 1..Len(batches) :
           \A a, b \in PositionsOf(batches[k]) : b - a < 20
    /\ (i > 0 /\ i % 20 = 0 /\ hpc # "raised") => current_batch = <<>>

\* ------------------------------------------------------------------------
\* Properties of fetch_with_retry
\* ------------------------------------------------------------------------

Is429(resp) == resp.kind = "http" /\ resp.status = 429

\* the number of consecutive 429 responses that end with the k-th response
RECURSIVE Run429(_)
Run429(k) ==
    IF k = 0 \/ ~Is429(fresps[k]) THEN 0 ELSE 1 + Run429(k - 1)

\* three 429 responses without a hint, then a 200
Three429Then200 ==
    /\ Len(fresps) = 4
    /\ \A k \in 1..3 : Is429(fresps[k]) /\ fresps[k].hint = NoHint
    /\ fresps[4].kind = "ok"

\* C8 as stated: the wait after the n-th consecutive 429 response without a
\* hint is 2 * 2^(n-1) seconds, and three 429 responses followed by a 200
\* give the waits 2, 4, 8 and the payload of the 200.
BackoffByConsecutive429 ==
    /\ \A k \in 1..Len(fresps) :
           (Is429(fresps[k]) /\ fresps[k].hint = NoHint) =>
               /\ k <= Len(f.waits)
               /\ f.waits[k] = 2 * Pow2(Run429(k) - 1)
    /\ Three429Then200 =>
           /\ f.waits = <<2, 4, 8>>
           /\ f.outcome = "returned"
           /\ f.value = fresps[4].payload

\* C8 as amended: the wait after a 429 response without a hint to the n-th
\* request of the call is 2 * 2^(n-1) seconds, whatever the responses before
\* it were; three 429 responses followed by a 200 give the waits 2, 4, 8 and
\* the payload of the 200.
BackoffByAttempt ==
    /\ \A k \in 1..Len(fresps) :
           (Is429(fresps[k]) /\ fresps[k].hint = NoHint) =>
               /\ k <= Len(f.waits)
               /\ f.waits[k] = 2 * Pow2(k - 1)
    /\ Three429Then200 =>
           /\ f.waits = <<2, 4, 8>>
           /\ f.outcome = "returned"
           /\ f.isNone = FALSE
           /\ f.value = fresps[4].payload

\* C8, its case: three 429 responses, then a 200 with a payload
BackoffByAttemptWitness ==
    /\ Three429Then200
    /\ fresps[4].payload # <<>>
    /\ f.waits = <<2, 4, 8>>
    /\ f.value = fresps[4].payload

\* C9: Retry-After is honoured.  After a 429 response with a wait hint of h
\* seconds the call waits exactly h seconds.
RetryAfterHonoured ==
    \A k \in 1..Len(fresps) :
        (Is429(fresps[k]) /\ fresps[k].hint # NoHint) =>
            /\ k <= Len(f.waits)
            /\ f.waits[k] = fresps[k].hint

\* C10: attempt cap and termination.  A call issues at most max_retries
\* requests, none after a successful response, and it ends.
AttemptCapAndTermination ==
    /\ [](/\ f.requests <= max_retries
          /\ Len(fresps) = f.requests
          /\ \A k \in 1..(Len(fresps) - 1) : fresps[k].kind # "ok"
          /\ f.outcome # "running" =>
                 (\/ f.requests = max_retries
                  \/ fresps[Len(fresps)].kind = "ok"))
    /\ <>(f.outcome # "running")

\* C10, its case: a call that ended after max_retries requests, each of a
\* different kind of error
AttemptCapWitness ==
    /\ f.outcome # "running"
    /\ f.requests = max_retries
    /\ \E k \in 1..Len(fresps) : Is429(fresps[k])
    /\ \E k \in 1..Len(fresps) : fresps[k].kind = "network"
    /\ \E k \in 1..Len(fresps) : fresps[k].status = 500

\* an HTTP 4xx response other than 429
IsClientError(resp) ==
    resp.kind = "http" /\ resp.status \in 400..499 /\ resp.status # 429

ReturnsPayloadOrRaises ==
    /\ f.outcome = "returned" =>
           /\ f.completed
           /\ ~f.isNone
           /\ fresps[Len(fresps)].kind = "ok"
           /\ f.value = fresps[Len(fresps)].payload
    /\ (f.outcome # "running" /\ \A k \in 1..Len(fresps) : fresps[k].kind # "ok")
           => f.outcome = "raised"

\* an HTTP 5xx response
IsServerError(resp) == resp.kind = "http" /\ resp.status \in 500..599

\* C13: 5xx responses and network errors follow one policy.  A call whose
\* requests all got 5xx has issued as many requests, waited the same times
\* and ended the same way as a call of the same parameters whose requests all
\* meet a network error.
SameRetryPolicy ==
    (/\ f.outcome # "running"
     /\ fresps # <<>>
     /\ \A k \in 1..Len(fresps) : IsServerError(fresps[k]))
        => \A u \in BOOLEAN :
               LET n == fetch_with_retry(Repeat(NetErr(u), max_retries), fzip)
               IN  /\ f.requests = n.requests
                   /\ f.waits = n.waits
                   /\ f.outcome = n.outcome

\* ------------------------------------------------------------------------
\* Properties of the run: store directory, zip codes, clearance harvest
\* ------------------------------------------------------------------------

\* step 1 is over
DirectoryFetched == mpc # "step1" /\ dir_fetch.outcome # "running"

\* C14: when the request of the store directory exhausts its retries (it
\* ends without a success payload), step 1 fails and the run ends there: no
\* batch of stores, not even an empty one, reached the sink and no zip code
\* was ever requested.
DirectoryFetchFatal ==
    (DirectoryFetched /\ ~dir_fetch.completed) =>
        /\ mpc = "failed"
        /\ store_batches = <<>>
        /\ fetched = <<>>

\* C15: once the clearance run has completed, the stored clearance records
\* are the records of all the batches the run yielded, in order, and none of
\* them is a record of the previous snapshot.
ReplaceAtRunGranularity ==
    mpc = "completed" =>
        /\ clearance_table = Flatten(batches)
        /\ \A k \in 1..Len(clearance_table) :
               clearance_table[k] \notin Range(old_clearances)

\* a completed run of several batches over a previous snapshot
ReplaceAtRunGranularityWitness ==
    /\ mpc = "completed"
    /\ Len(batches) >= 2
    /\ old_clearances # <<>>
    /\ clearance_table = Flatten(batches)

StoreTableIds(table) == {table[k]["id"] : k \in 1..Len(table)}

\* C17: after a successful fetch of the store directory no two rows of the
\* store table have the same id, whatever the upstream listed.
StoreTableIdsUnique ==
    (DirectoryFetched /\ dir_fetch.completed) =>
        \A a, b \in 1..Len(store_table) :
            store_table[a]["id"] = store_table[b]["id"] => a = b

\* the run is over
RunEnded == mpc \in {"completed", "failed", "aborted"}

\* C18: in the stored state a run leaves (completed, failed or aborted in
\* either step), the store of every stored clearance record is a row of the
\* store table.
ReferentialConsistency ==
    RunEnded =>
        \A k \in 1..Len(clearance_table) :
            clearance_table[k]["store"]["id"] \in StoreTableIds(store_table)

\* the zip values of the rows of a store table
StoreTableZips(table) == {table[k]["address__zip"] : k \in 1..Len(table)}

\* C19: the zip-code list handed to the harvester holds each zip value of
\* the store table exactly once, in ascending order, and neither a null nor
\* an empty-string zip.
ZipListWellFormed ==
    mpc = "step3" =>
        /\ Ascending(zip_codes)
        /\ Range(zip_codes) = StoreTableZips(store_table) \ {NullZip, EmptyZip}

\* a request of the harvester is under way
InFlight == hpc = "fetching" /\ f.outcome = "running"

\* the zip codes requested so far are the first ones of the list, each once
RequestedInOrder ==
    /\ Len(fetched) = i
    /\ \A j \in 1..Len(fetched) : fetched[j].zip = zip_codes[j]
    /\ hpc = "fetching" => fzip = zip_codes[i + 1]

\* C20: the harvester requests each zip code once, in the order of the list,
\* and while the request of a zip code (with its retries) is under way the
\* only thing that happens is a further attempt of that same request: no
\* request of another zip code starts and the loop does not move on.
SequentialOrderedHarvest ==
    /\ []RequestedInOrder
    /\ [][InFlight =>
              /\ fzip' = fzip
              /\ i' = i
              /\ fetched' = fetched
              /\ f'.requests = f.requests + 1]_vars

\* the request of a later zip code under way, in its retries, after the
\* request of the first zip code has ended
SequentialOrderedHarvestWitness ==
    /\ InFlight
    /\ i >= 1
    /\ Len(fetched) = i
    /\ f.requests >= 2

\* ------------------------------------------------------------------------
\* Further properties of the harvester and of fetch_with_retry
\* ------------------------------------------------------------------------

\* C21: no delay is taken before the request of the first zip code, and a
\* delay of 2 seconds is taken before the request of every later zip code,
\* whatever became of the zip code before it.
InterRequestDelayTaken ==
    /\ Len(delays) = Len(fetched)
    /\ \A j \in 1..Len(delays) : delays[j] = (IF j = 1 THEN 0 ELSE 2)

\* a delay taken after a zip code that failed and after one without data
InterRequestDelayTakenWitness ==
    /\ Len(delays) >= 3
    /\ fetched[1].outcome = "raised"
    /\ fetched[2].completed /\ fetched[2].payload = <<>>
    /\ delays[1] = 0 /\ delays[2] = 2 /\ delays[3] = 2

\* the coordinates field of a store object, [] when there is none
CoordinatesOf(store) ==
    IF "coordinates" \in DOMAIN store THEN store["coordinates"] ELSE <<>>

\* out is the store object store with its coordinates normalised
NormalizedAs(store, out) ==
    /\ "coordinates" \notin DOMAIN out
    /\ IF Len(CoordinatesOf(store)) >= 2
       THEN /\ {"longitude", "latitude"} \subseteq DOMAIN out
            /\ out["longitude"] = CoordinatesOf(store)[1]
            /\ out["latitude"] = CoordinatesOf(store)[2]
       ELSE /\ "longitude" \notin DOMAIN out
            /\ "latitude" \notin DOMAIN out
    /\ out["id"] = store["id"]

\* the group of the responses that a kept record was made of: the first
\* group of its store in the response of its zip code
SourceGroup(rec) ==
    LET payload == fetched[PosOf(rec["queried_zip_code"])].payload
        k == CHOOSE m \in GroupsOf(payload, rec["store"]["id"]) :
                 \A n \in GroupsOf(payload, rec["store"]["id"]) : m <= n
    IN  payload[k]

\* C22: every row the store fetcher yields and every record the harvester
\* keeps carries longitude = a and latitude = b when the coordinates field of
\* its upstream store object is [a, b, ...], carries neither when that field
\* is absent or shorter, and never carries a coordinates field.
CoordinatesNormalized ==
    /\ (DirectoryFetched /\ dir_fetch.completed) =>
           /\ Len(store_batches[1]) = Len(dir_fetch.value)
           /\ \A k \in 1..Len(dir_fetch.value) :
                  NormalizedAs(dir_fetch.value[k], store_batches[1][k])
    /\ \A n \in 1..Len(Kept) :
           NormalizedAs(SourceGroup(Kept[n])["store"], Kept[n]["store"])

\* rows and records of both kinds came out: coordinates of three numbers
\* and of one number in the directory, of two numbers and none at all in a
\* clearance response
CoordinatesNormalizedWitness ==
    /\ mpc = "completed"
    /\ \E k \in 1..Len(dir_fetch.value) :
           Len(CoordinatesOf(dir_fetch.value[k])) = 3
    /\ \E k \in 1..Len(dir_fetch.value) :
           Len(CoordinatesOf(dir_fetch.value[k])) = 1
    /\ \E n \in 1..Len(clearance_table) :
           "longitude" \in DOMAIN clearance_table[n]["store"]
    /\ \E n \in 1..Len(clearance_table) :
           "coordinates" \notin DOMAIN SourceGroup(clearance_table[n])["store"]

\* the store ids of a harvester run's output, each with its queried_zip_code
StoreZipPairs(records) ==
    {<<records[n]["store"]["id"], records[n]["queried_zip_code"]>> :
        n \in 1..Len(records)}

\* the second run is over
SecondRunOver == Len(prev_output) = 1 /\ hpc \in {"done", "raised"}

\* C23: two runs of the harvester over the same zip-code list, against an
\* upstream that answers each zip request the same way both times, yield
\* records of the same stores, each store with the same queried_zip_code.
RerunSameStores ==
    SecondRunOver =>
        StoreZipPairs(Flatten(batches)) = StoreZipPairs(prev_output[1])

\* two runs that both yielded a store the upstream lists under both zip codes
RerunSameStoresWitness ==
    /\ SecondRunOver
    /\ hpc = "done"
    /\ \E s \in StoreIds :
           /\ \A j \in 1..2 : Returned(j, s)
           /\ <<s, TwiceZips[1]>> \in StoreZipPairs(prev_output[1])
           /\ <<s, TwiceZips[1]>> \in StoreZipPairs(Flatten(batches))

\* ------------------------------------------------------------------------
\* Properties of the reader processes
\* ------------------------------------------------------------------------

\* C24: the harvester keeps every offer of a group it accepts, whatever the
\* stock, and get_store_clearances, in app.py and in main.py, gives only
\* offers with stock > 0, in ascending order of end time.
StockFilteredOnRead ==
    /\ \A n \in 1..Len(Kept) :
           Kept[n]["clearances"] = SourceGroup(Kept[n])["clearances"]
    /\ response.kind = "rows" =>
           /\ \A n \in 1..Len(response.rows) :
                  response.rows[n].offer__stock > 0
           /\ \A m, n \in 1..Len(response.rows) :
                  m < n => response.rows[m].offer__end_time
                               <= response.rows[n].offer__end_time

\* a stored group of three offers, one of them without stock and the other
\* two in descending order of end time, read as two offers
StockFilteredOnReadWitness ==
    /\ mpc = "completed"
    /\ Len(clearance_table) = 1
    /\ Len(clearance_table[1]["clearances"]) = 3
    /\ clearance_table[1]["clearances"][1].endTime = 2
    /\ clearance_table[1]["clearances"][1].stock > 0
    /\ clearance_table[1]["clearances"][2].stock <= 0
    /\ clearance_table[1]["clearances"][3].endTime = 1
    /\ response.kind = "rows"
    /\ Len(response.rows) = 2

\* the pipeline run a row of a response was loaded by
RowGeneration(row) ==
    IF "name" \in DOMAIN row THEN row.name ELSE row.product__description

\* C25: once a pipeline run has committed both its tables, every row a read
\* call of the reader process returns was loaded by that run: no response
\* carries rows of an older generation.
ReadersSeeOneGeneration ==
    (response.kind = "rows" /\ ~db.pending) =>
        \A n \in 1..Len(response.rows) :
            RowGeneration(response.rows[n]) = db.runs

\* the store sid is in the store table and has an offer in stock
ChatPossible(sid) ==
    /\ sid # NoStore
    /\ \E n \in 1..Len(db.all_stores) : db.all_stores[n].id = sid
    /\ ClearanceJoin(db, sid) # {}

\* C30: a chat request reaches the LLM only for a store id that is not
\* empty, of a store in the store table, with an offer in stock; every other
\* request ends with one fixed message (or a 404 in main.py) and without a
\* call of the LLM.
ChatGuards ==
    response.kind \in {"llm", "message", "http404", "http500", "error"} =>
        /\ response.llm => ChatPossible(response.rows[1])
        /\ ~ChatPossible(response.rows[1]) =>
               response.kind \in {"message", "http404"}

\* ------------------------------------------------------------------------
\* Malformed records, and the waits and the error text of fetch_with_retry
\* ------------------------------------------------------------------------

\* the response of the j-th zip code holds a group without a store object or
\* without a store id
HasMalformed(j) ==
    fetched[j].completed
        /\ \E k \in 1..Len(fetched[j].payload) : ~HasStoreId(fetched[j].payload[k])

\* C26: a group without a store object or without a store id is rejected and
\* nothing else: no exception leaves the harvester, no such group is kept,
\* and the zip codes after it are still requested.
MalformedRecordRejected ==
    /\ hpc # "raised"
    /\ \A n \in 1..Len(Kept) : HasStoreId(Kept[n])
    /\ \A j \in 1..Len(fetched) :
           (HasMalformed(j) /\ j < Len(zip_codes)) =>
               (hpc = "loop" \/ Len(fetched) = Len(zip_codes))

\* C27: every backoff wait of a fetch_with_retry call is followed by another
\* request: a call that is over has taken fewer waits than it has made
\* requests, so none after its last attempt.
WaitsOnlyBetweenAttempts ==
    /\ Len(f.waits) <= f.requests
    /\ f.outcome # "running" => Len(f.waits) <= f.requests - 1

\* C28: how fetch_with_retry handles a sequence of responses depends on the
\* responses alone: the same responses to the request of any other zip code
\* give the same number of requests, the same waits and the same outcome.
ClassifiedByStatusOnly ==
    \A z \in Range(ZipTable) :
        LET g == fetch_with_retry(fresps, z)
        IN  /\ g.requests = f.requests
            /\ g.waits = f.waits
            /\ g.outcome = f.outcome
            /\ g.isNone = f.isNone

\* ------------------------------------------------------------------------
\* The threads of the image downloader
\* ------------------------------------------------------------------------

\* two different tasks of the run with the same output path
SamePath(a, b) ==
    a # b /\ image_tasks[a].filename = image_tasks[b].filename

\* C29: the threads of the image downloader do not collide: never more than
\* MAX_WORKERS tasks are being worked on, and no two tasks with the same
\* output path are both between the test for the file and the writing of
\* it, or have both written it.
WorkersDoNotCollide ==
    /\ Cardinality(Running) <= MAX_WORKERS
    /\ \A a, b \in DOMAIN image_tasks :
           SamePath(a, b) =>
               /\ ~({a, b} \subseteq Running)
               /\ ~({a, b} \subseteq written)

====
